---- MODULE Spec2Model ----
(***************************************************************************)
(* Model of the Postmaster Python bindings (postmaster/__init__.py).       *)
(*                                                                         *)
(* A client holds at most one record (rec), calls the library's verbs one  *)
(* after the other, and every verb runs against a transport whose reply    *)
(* (a parsed JSON value, or a raised error) is chosen by the environment.  *)
(* last records the most recent call: its verb, its arguments, the reply   *)
(* the transport gave, the requests the call issued and its outcome.       *)
(***************************************************************************)
EXTENDS Integers, Sequences, FiniteSets, TLC

VARIABLES rec, last, ncalls, nreq

vars == <<rec, last, ncalls, nreq>>

\* Number of verb calls a behaviour makes.
MaxCalls == 2

(***************************************************************************)
(* Python values, tagged by type.                                          *)
(***************************************************************************)
None == [t |-> "None"]
True == [t |-> "bool", v |-> TRUE]
Str(s) == [t |-> "str", v |-> s]
Num(n) == [t |-> "int", v |-> n]
Dict(m) == [t |-> "dict", v |-> m]
List(s) == [t |-> "list", v |-> s]

\* An instance of a PostmasterObject subclass: _data and the other instance
\* attributes (Shipment.create sets id).
Obj(c, d, a) == [t |-> "object", cls |-> c, data |-> d, attrs |-> a]

NoObject == [t |-> "NoObject"]

\* Python's truth value of v (if v: ...).
Truthy(v) ==
    CASE v.t = "None" -> FALSE
      [] v.t = "bool" -> v.v
      [] v.t = "str" -> v.v # ""
      [] v.t = "int" -> v.v # 0
      [] v.t = "dict" -> DOMAIN v.v # {}
      [] v.t = "list" -> Len(v.v) # 0
      [] OTHER -> TRUE

\* '%s' % v, for the values an id or an action takes here: None, a bool, a
\* number or a string.
PyStr(v) ==
    CASE v.t = "str" -> v.v
      [] v.t = "None" -> "None"
      [] v.t = "bool" -> (IF v.v THEN "True" ELSE "False")
      [] v.t = "int" -> ToString(v.v)

\* How a call ends.
Return(v) == [kind |-> "return", val |-> v]
Raise(e) == [kind |-> "raise", val |-> e]

TypeError == [t |-> "error", v |-> "TypeError"]
KeyError == [t |-> "error", v |-> "KeyError"]
ValueError == [t |-> "error", v |-> "ValueError"]
AttributeError == [t |-> "error", v |-> "AttributeError"]
HTTPError(status) == [t |-> "HTTPError", v |-> status]

\* PATH of each class (None for the classes that set none).
PATH(cls) ==
    CASE cls = "Rate" -> Str("/v1/rates")
      [] cls = "TimeInTransit" -> Str("/v1/times")
      [] cls = "Address" -> Str("/v1/validate")
      [] cls = "Shipment" -> Str("/v1/shipments")
      [] OTHER -> None

(***************************************************************************)
(* The transport (postmaster/http.py): one round trip per call, which      *)
(* returns the parsed response or raises; reply is what the server and the *)
(* network make of the request.                                            *)
(***************************************************************************)
Request(method, path, body, params, headers) ==
    [method |-> method, path |-> path, body |-> body, params |-> params,
     headers |-> headers]

HTTPTransport_get(url, data, headers, reply) ==
    [reqs |-> <<Request("GET", url, None, data, headers)>>, outcome |-> reply]

HTTPTransport_post(url, data, headers, reply) ==
    [reqs |-> <<Request("POST", url, data, None, headers)>>, outcome |-> reply]

HTTPTransport_put(url, data, headers, reply) ==
    [reqs |-> <<Request("PUT", url, data, None, headers)>>, outcome |-> reply]

HTTPTransport_delete(url, reply) ==
    [reqs |-> <<Request("DELETE", url, None, None, "default")>>, outcome |-> reply]

(***************************************************************************)
(* PostmasterObject                                                        *)
(***************************************************************************)
\* cls(**kwargs): PostmasterObject.__init__(self, **kwargs) of a class whose
\* ARGS is the given whitelist.  A keyword named self collides with the
\* parameter self, and the call raises before the body runs.
PostmasterObject__init__(cls, ARGS, kwargs) ==
    IF "self" \in DOMAIN kwargs THEN Raise(TypeError)
    ELSE IF ARGS # {} /\ \E k \in DOMAIN kwargs : k \notin ARGS
    THEN Raise(TypeError)
    ELSE Return(Obj(cls, Dict(kwargs), <<>>))

\* name in data: a key of a dict, an element of a list, a substring of a str.
Contains(data, name) ==
    CASE data.t = "dict" -> name \in DOMAIN data.v
      [] data.t = "list" -> \E i \in 1..Len(data.v) : data.v[i] = Str(name)
      [] data.t = "str" ->
            \E i \in 1..(Len(data.v) + 1) :
                i + Len(name) - 1 <= Len(data.v) /\ SubSeq(data.v, i, i + Len(name) - 1) = name

\* __getattr__(self, name), which Python calls for a name that is neither an
\* instance attribute nor a class attribute.
PostmasterObject__getattr__(self, name) ==
    \* name in self._data raises for a value that is no container
    IF self.data.t \notin {"dict", "list", "str"} THEN Raise(TypeError)
    ELSE IF ~Contains(self.data, name) THEN Raise(AttributeError)
    \* self._data[name]
    ELSE IF self.data.t = "dict" THEN Return(self.data.v[name])
    ELSE Raise(TypeError)

\* self.id of a shipment: the instance attribute Shipment.create sets, else
\* __getattr__ (no class defines an attribute id).
Shipment_id(self) ==
    IF "id" \in DOMAIN self.attrs THEN Return(self.attrs["id"])
    ELSE PostmasterObject__getattr__(self, "id")

\* action and '%s/%s/%s' % (PATH, id_, action) or '%s/%s' % (PATH, id_)
ObjectUrl(self, id_, action) ==
    IF Truthy(action)
    THEN Str(PyStr(PATH(self.cls)) \o "/" \o PyStr(id_) \o "/" \o PyStr(action))
    ELSE Str(PyStr(PATH(self.cls)) \o "/" \o PyStr(id_))

\* What a method call did: the requests it issued, how it ended, and the
\* object it was called on as the call leaves it.
MethodCall(r, self) == [reqs |-> r.reqs, outcome |-> r.outcome, self |-> self]

\* A put that uses the PUT verb whether or not an id is given.
PostmasterObject_putAlwaysPut(self, id_, action, reply) ==
    IF Truthy(id_)
    THEN MethodCall(HTTPTransport_put(ObjectUrl(self, id_, action), self.data, "config.headers", reply), self)
    ELSE MethodCall(HTTPTransport_put(PATH(self.cls), self.data, "config.headers", reply), self)

\* A put that merges the response into the object's own fields.
PostmasterObject_putMerge(self, id_, action, reply) ==
    LET r == IF Truthy(id_)
             THEN HTTPTransport_put(ObjectUrl(self, id_, action), self.data, "config.headers", reply)
             ELSE HTTPTransport_post(PATH(self.cls), self.data, "config.headers", reply)
    IN  IF r.outcome.kind = "return" /\ r.outcome.val.t = "dict" /\ self.data.t = "dict"
        THEN MethodCall(r, [self EXCEPT !.data = Dict(r.outcome.val.v @@ self.data.v)])
        ELSE MethodCall(r, self)

PostmasterObject_put(self, id_, action, reply) ==
    IF Truthy(id_)
    THEN MethodCall(HTTPTransport_put(ObjectUrl(self, id_, action), self.data, "config.headers", reply), self)
    ELSE MethodCall(HTTPTransport_post(PATH(self.cls), self.data, "config.headers", reply), self)

\* A get that sends the request a second time when the first one fails.
PostmasterObject_getRetry(self, id_, action, params, reply) ==
    LET r == IF Truthy(id_)
             THEN HTTPTransport_get(ObjectUrl(self, id_, action), params, "config.headers", reply)
             ELSE HTTPTransport_get(PATH(self.cls), params, "config.headers", reply)
    IN  IF r.outcome.kind = "raise"
        THEN MethodCall([reqs |-> r.reqs \o r.reqs, outcome |-> r.outcome], self)
        ELSE MethodCall(r, self)

PostmasterObject_get(self, id_, action, params, reply) ==
    IF Truthy(id_)
    THEN MethodCall(HTTPTransport_get(ObjectUrl(self, id_, action), params, "config.headers", reply), self)
    ELSE MethodCall(HTTPTransport_get(PATH(self.cls), params, "config.headers", reply), self)

\* What a call did that leaves the object it was made on as it was, or that
\* was made on none.
Call(reqs, outcome) == [reqs |-> reqs, outcome |-> outcome]

(***************************************************************************)
(* Address                                                                 *)
(***************************************************************************)
AddressKwargs(company, contact, line1, line2, line3, city, state, zip_code, country, keep2, keep3) ==
    [k \in {"company", "contact", "line1", "city", "state", "zip_code", "country"}
           \cup (IF keep2 THEN {"line2"} ELSE {})
           \cup (IF keep3 THEN {"line3"} ELSE {}) |->
        CASE k = "company" -> company
          [] k = "contact" -> contact
          [] k = "line1" -> line1
          [] k = "line2" -> line2
          [] k = "line3" -> line3
          [] k = "city" -> city
          [] k = "state" -> state
          [] k = "zip_code" -> zip_code
          [] k = "country" -> country]

\* An Address that keeps every line that is not None.
Address__init__KeepEmpty(company, contact, line1, line2, line3, city, state, zip_code, country) ==
    PostmasterObject__init__("Address", {},
        AddressKwargs(company, contact, line1, line2, line3, city, state,
                      zip_code, country, line2 # None, line3 # None))

Address__init__(company, contact, line1, line2, line3, city, state, zip_code, country) ==
    PostmasterObject__init__("Address", {},
        AddressKwargs(company, contact, line1, line2, line3, city, state,
                      zip_code, country, Truthy(line2), Truthy(line3)))

Address_validate(self, reply) == PostmasterObject_put(self, None, None, reply)

(***************************************************************************)
(* Shipment                                                                *)
(***************************************************************************)
\* shipment._data as Shipment.create builds it before the request.
CreateData(to, packages, service, from_, carrier, reference, options) ==
    [k \in {"to", "packages", "service"}
           \cup (IF Truthy(from_) THEN {"from"} ELSE {})
           \cup (IF Truthy(carrier) THEN {"carrier"} ELSE {})
           \cup (IF Truthy(reference) THEN {"reference"} ELSE {})
           \cup (IF Truthy(options) THEN {"options"} ELSE {}) |->
        CASE k = "to" -> to
          [] k = "packages" -> packages
          [] k = "service" -> service
          [] k = "from" -> from_
          [] k = "carrier" -> carrier
          [] k = "reference" -> reference
          [] k = "options" -> options]

\* len(x) of an element of the sequence handed to dict.update, -1 for a value
\* that cannot be iterated.
ElemLen(x) ==
    CASE x.t \in {"str", "list"} -> Len(x.v)
      [] x.t = "dict" -> Cardinality(DOMAIN x.v)
      [] OTHER -> -1

\* Whether dict.update stops at the element x: it is no pair, or a pair whose
\* first item cannot be hashed.
UpdateStops(x) == ElemLen(x) # 2 \/ (x.t = "list" /\ x.v[1].t \in {"list", "dict"})

\* The error of shipment._data.update(resp) followed by resp['id'], for a
\* response that is no dict: update raises ValueError at the first element
\* that can be iterated and is no pair, TypeError at one that cannot be
\* iterated or hashed, and where update gets through, resp['id'] raises
\* TypeError.
NonDictUpdateError(resp) ==
    CASE resp.t = "list" ->
            IF \E i \in 1..Len(resp.v) : UpdateStops(resp.v[i])
            THEN LET i == CHOOSE i \in 1..Len(resp.v) :
                            UpdateStops(resp.v[i]) /\ \A j \in 1..(i - 1) : ~UpdateStops(resp.v[j])
                 IN  IF ElemLen(resp.v[i]) \notin {-1, 2} THEN ValueError ELSE TypeError
            ELSE TypeError
      [] resp.t = "str" -> (IF resp.v # "" THEN ValueError ELSE TypeError)
      [] OTHER -> TypeError

\* A create that keeps its own fields where the response has the same ones.
Shipment_createKeepInput(to, packages, service, from_, carrier, reference, options, reply) ==
    LET data == CreateData(to, packages, service, from_, carrier, reference, options)
        r == PostmasterObject_put(Obj("Shipment", Dict(data), <<>>), None, None, reply)
        resp == r.outcome.val
    IN  IF r.outcome.kind = "raise" THEN Call(r.reqs, r.outcome)
        ELSE IF resp.t # "dict" THEN Call(r.reqs, Raise(NonDictUpdateError(resp)))
        ELSE IF "id" \notin DOMAIN resp.v THEN Call(r.reqs, Raise(KeyError))
        ELSE Call(r.reqs, Return(Obj("Shipment", Dict(r.self.data.v @@ resp.v),
                                     [id |-> resp.v["id"]])))

Shipment_create(to, packages, service, from_, carrier, reference, options, reply) ==
    LET data == CreateData(to, packages, service, from_, carrier, reference, options)
        r == PostmasterObject_put(Obj("Shipment", Dict(data), <<>>), None, None, reply)
        resp == r.outcome.val
    IN  IF r.outcome.kind = "raise" THEN Call(r.reqs, r.outcome)
        \* _data.update(resp), then resp['id']
        ELSE IF resp.t # "dict" THEN Call(r.reqs, Raise(NonDictUpdateError(resp)))
        ELSE IF "id" \notin DOMAIN resp.v THEN Call(r.reqs, Raise(KeyError))
        ELSE Call(r.reqs, Return(Obj("Shipment", Dict(resp.v @@ r.self.data.v),
                                     [id |-> resp.v["id"]])))

\* A retrieve that answers a failed request with an empty record.
Shipment_retrieveSwallow(package_id, reply) ==
    LET r == PostmasterObject_get(Obj("Shipment", Dict(<<>>), <<>>), package_id,
                                  None, None, reply)
    IN  IF r.outcome.kind = "raise"
        THEN Call(r.reqs, Return(Obj("Shipment", Dict(<<>>), <<>>)))
        ELSE Call(r.reqs, Return(Obj("Shipment", r.outcome.val, <<>>)))

Shipment_retrieve(package_id, reply) ==
    LET r == PostmasterObject_get(Obj("Shipment", Dict(<<>>), <<>>), package_id,
                                  None, None, reply)
    IN  IF r.outcome.kind = "raise" THEN Call(r.reqs, r.outcome)
        ELSE Call(r.reqs, Return(Obj("Shipment", r.outcome.val, <<>>)))

Shipment_track(self, reply) ==
    LET id == Shipment_id(self)
        r == PostmasterObject_get(self, id.val, Str("track"), None, reply)
    IN  IF id.kind = "raise" THEN [reqs |-> <<>>, outcome |-> id, self |-> self]
        ELSE IF r.outcome.kind = "raise" THEN r
        \* Tracking(**response)
        ELSE IF r.outcome.val.t # "dict"
             THEN [reqs |-> r.reqs, outcome |-> Raise(TypeError), self |-> r.self]
             ELSE [reqs |-> r.reqs,
                   outcome |-> PostmasterObject__init__("Tracking", {}, r.outcome.val.v),
                   self |-> r.self]

Shipment_void(self, reply) ==
    LET id == Shipment_id(self)
        r == PostmasterObject_put(self, id.val, Str("void"), reply)
    IN  IF id.kind = "raise" THEN [reqs |-> <<>>, outcome |-> id, self |-> self]
        ELSE IF r.outcome.kind = "raise" THEN r
        ELSE [reqs |-> r.reqs, outcome |-> Return(None), self |-> r.self]

(***************************************************************************)
(* The module's functions                                                  *)
(***************************************************************************)
track_by_reference(tracking_number, reply) ==
    HTTPTransport_get(Str("/v1/track"), Dict([tracking |-> tracking_number]),
                      "default", reply)

get_transit_time(from_zip, to_zip, weight, carrier, reply) ==
    LET tit == PostmasterObject__init__("TimeInTransit", {},
                   [from_zip |-> from_zip, to_zip |-> to_zip, weight |-> weight,
                    carrier |-> carrier])
    IN  IF tit.kind = "raise" THEN Call(<<>>, tit)
        ELSE LET r == PostmasterObject_put(tit.val, None, None, reply)
             IN  Call(r.reqs, r.outcome)

get_rate(carrier, to_zip, weight, from_zip, service, reply) ==
    LET rate == PostmasterObject__init__("Rate", {},
                    [from_zip |-> from_zip, to_zip |-> to_zip, weight |-> weight,
                     carrier |-> carrier, service |-> service])
    IN  IF rate.kind = "raise" THEN Call(<<>>, rate)
        ELSE LET r == PostmasterObject_put(rate.val, None, None, reply)
             IN  Call(r.reqs, r.outcome)

get_token(reply) == HTTPTransport_get(Str("/v1/token"), None, "default", reply)

\* A void_shipment that takes any message for a confirmation.
void_shipmentAnyMessage(id, reply) ==
    LET r == HTTPTransport_delete(Str("/v1/shipments/" \o PyStr(id) \o "/void"), reply)
        status == r.outcome.val
    IN  IF r.outcome.kind = "raise" THEN r
        ELSE IF status.t = "dict" /\ "message" \in DOMAIN status.v
             THEN Call(r.reqs, Return(True))
             ELSE Call(r.reqs, Return(None))

void_shipment(id, reply) ==
    LET r == HTTPTransport_delete(Str("/v1/shipments/" \o PyStr(id) \o "/void"), reply)
        status == r.outcome.val
    IN  IF r.outcome.kind = "raise" THEN r
        \* status.get('message') == 'OK'
        ELSE IF /\ status.t = "dict"
                /\ "message" \in DOMAIN status.v
                /\ status.v["message"] = Str("OK")
             THEN Call(r.reqs, Return(True))
             ELSE Call(r.reqs, Return(None))

\* The query of the two listings: a key for each argument that is not None.
ListData(cursor, limit, keepCursor, keepLimit) ==
    [k \in (IF keepCursor THEN {"cursor"} ELSE {})
           \cup (IF keepLimit THEN {"limit"} ELSE {}) |->
        IF k = "cursor" THEN cursor ELSE limit]

\* A listing that leaves out an empty cursor and a limit of 0.
list_shipmentsTruthy(cursor, limit, reply) ==
    HTTPTransport_get(Str("/v1/shipments"),
                      Dict(ListData(cursor, limit, Truthy(cursor), Truthy(limit))),
                      "default", reply)

list_shipments(cursor, limit, reply) ==
    HTTPTransport_get(Str("/v1/shipments"),
                      Dict(ListData(cursor, limit, cursor # None, limit # None)),
                      "default", reply)

create_box(width, height, length, weight, weight_units, size_units, name, reply) ==
    HTTPTransport_post(Str("/v1/packages"),
        Dict([k \in {"width", "height", "length"}
                    \cup (IF weight # None THEN {"weight"} ELSE {})
                    \cup (IF weight_units # None THEN {"weight_units"} ELSE {})
                    \cup (IF size_units # None THEN {"size_units"} ELSE {})
                    \cup (IF name # None THEN {"name"} ELSE {}) |->
                CASE k = "width" -> width
                  [] k = "height" -> height
                  [] k = "length" -> length
                  [] k = "weight" -> weight
                  [] k = "weight_units" -> weight_units
                  [] k = "size_units" -> size_units
                  [] k = "name" -> name]),
        "default", reply)

list_boxes(cursor, limit, reply) ==
    HTTPTransport_get(Str("/v1/packages"),
                      Dict(ListData(cursor, limit, cursor # None, limit # None)),
                      "default", reply)

(***************************************************************************)
(* The inputs the client draws its arguments from, and the transport's     *)
(* replies.                                                                *)
(***************************************************************************)
Responses ==
    { Dict([id |-> Str("S1"), status |-> Str("created")]),
      Dict([id |-> Num(7), service |-> Str("express")]),
      Dict([id |-> Str(""), message |-> Str("ok")]),
      Dict([id |-> Str("S1"), self |-> Str("/v1/shipments/S1")]),
      Dict([message |-> Str("OK")]),
      Dict([message |-> Str("FAILED")]),
      List(<<>>),
      List(<<Dict([id |-> Str("S1")])>>) }

Statuses == {404, 500}

Replies == {Return(r) : r \in Responses} \cup {Raise(HTTPError(s)) : s \in Statuses}

\* The replies drawn for the verbs that hand the response on as it is.
Page == Dict([cursor |-> Str("abc"), previousCursor |-> None, results |-> List(<<>>)])
PlainReplies == {Return(Page), Return(List(<<>>)), Raise(HTTPError(404))}

Ids == {None, Str(""), Str("S1"), Num(7)}
Actions == {None, Str(""), Str("void")}
Lines == {None, Str(""), Str("Suite 4")}
Cursors == {None, Str(""), Str("abc")}
Limits == {None, Num(0), Num(10)}

Whitelists == {{}, {"weight", "self"}}
FieldNames == {"weight", "colour", "self"}
FieldMappings == UNION {[K -> {Str("x")}] : K \in SUBSET FieldNames}

ToAddress == Dict([city |-> Str("Austin"), zip_code |-> Str("78701")])
Packages == List(<<Dict([weight |-> Num(2)])>>)
FromAddress == Dict([city |-> Str("Dallas")])

\* The optional arguments of Shipment.create: none given, all given, some
\* given empty.
CreateOptions ==
    { [from |-> None, carrier |-> None, reference |-> None, options |-> None],
      [from |-> FromAddress, carrier |-> Str("ups"), reference |-> Str("ref1"),
       options |-> Dict([insurance |-> True])],
      [from |-> None, carrier |-> Str(""), reference |-> Str("ref1"),
       options |-> Dict(<<>>)] }

Verbs ==
    {"put", "get", "validate", "create", "retrieve", "track", "void",
     "track_by_reference", "get_transit_time", "get_rate", "get_token",
     "void_shipment", "list_shipments", "create_box", "list_boxes"}

(***************************************************************************)
(* The client's steps.                                                     *)
(***************************************************************************)
Init ==
    /\ rec = NoObject
    /\ last = [verb |-> "none", args |-> <<>>, reply |-> Return(None),
               reqs |-> <<>>, outcome |-> Return(None)]
    /\ ncalls = 0
    /\ nreq = 0

\* A constructor call: no request, and the client holds the object it made.
Constructed(verb, args, outcome) ==
    /\ last' = [verb |-> verb, args |-> args, reply |-> Return(None),
                reqs |-> <<>>, outcome |-> outcome]
    /\ rec' = IF outcome.kind = "return" THEN outcome.val ELSE rec
    /\ UNCHANGED <<ncalls, nreq>>

\* A verb call that ended as r, after which the client holds held.
Called(verb, args, reply, r, held) ==
    /\ ncalls < MaxCalls
    /\ last' = [verb |-> verb, args |-> args, reply |-> reply,
                reqs |-> r.reqs, outcome |-> r.outcome]
    /\ rec' = held
    /\ ncalls' = ncalls + 1
    /\ nreq' = nreq + Len(r.reqs)

\* The object a factory call leaves with the client.
Held(r) == IF r.outcome.kind = "return" THEN r.outcome.val ELSE rec

\* An instance of a class with the whitelist ARGS, from keyword arguments.
Construct ==
    \E ARGS \in Whitelists, kwargs \in FieldMappings :
        Constructed("PostmasterObject", [ARGS |-> ARGS, kwargs |-> kwargs],
                    PostmasterObject__init__("Custom", ARGS, kwargs))

NewAddress ==
    \E line2 \in Lines, line3 \in Lines :
        Constructed("Address", [line2 |-> line2, line3 |-> line3],
                    Address__init__(None, Str("Joe"), Str("1 Main St"), line2, line3, Str("Austin"), Str("TX"), Str("78701"), Str("US")))

Put ==
    /\ rec.t = "object"
    /\ \E id_ \in Ids, action \in Actions, reply \in PlainReplies :
        Called("put", [id_ |-> id_, action |-> action], reply,
               PostmasterObject_put(rec, id_, action, reply),
               PostmasterObject_put(rec, id_, action, reply).self)

Get ==
    /\ rec.t = "object"
    /\ \E id_ \in Ids, action \in Actions, reply \in PlainReplies :
        Called("get", [id_ |-> id_, action |-> action, params |-> None], reply,
               PostmasterObject_get(rec, id_, action, None, reply),
               PostmasterObject_get(rec, id_, action, None, reply).self)

Validate ==
    /\ rec.t = "object" /\ rec.cls = "Address"
    /\ \E reply \in PlainReplies :
        Called("validate", <<>>, reply, Address_validate(rec, reply),
               Address_validate(rec, reply).self)

Create ==
    \E o \in CreateOptions, reply \in Replies :
        LET r == Shipment_create(ToAddress, Packages, Str("ground"), o.from, o.carrier, o.reference, o.options, reply)
        IN  Called("create",
                   [to |-> ToAddress, packages |-> Packages, service |-> Str("ground"),
                    from |-> o.from, carrier |-> o.carrier, reference |-> o.reference,
                    options |-> o.options],
                   reply, r, Held(r))

Retrieve ==
    \E package_id \in Ids, reply \in Replies :
        LET r == Shipment_retrieve(package_id, reply)
        IN  Called("retrieve", [package_id |-> package_id], reply, r, Held(r))

Track ==
    /\ rec.t = "object" /\ rec.cls = "Shipment"
    /\ \E reply \in Replies :
        Called("track", <<>>, reply, Shipment_track(rec, reply),
               Shipment_track(rec, reply).self)

Void ==
    /\ rec.t = "object" /\ rec.cls = "Shipment"
    /\ \E reply \in Replies :
        Called("void", <<>>, reply, Shipment_void(rec, reply),
               Shipment_void(rec, reply).self)

TrackByReference ==
    \E tracking_number \in {Str("1Z999")}, reply \in PlainReplies :
        Called("track_by_reference", [tracking_number |-> tracking_number], reply,
               track_by_reference(tracking_number, reply), rec)

GetTransitTime ==
    \E carrier \in {None, Str("ups")}, reply \in PlainReplies :
        Called("get_transit_time",
               [from_zip |-> Str("78701"), to_zip |-> Str("10001"),
                weight |-> Num(2), carrier |-> carrier],
               reply,
               get_transit_time(Str("78701"), Str("10001"), Num(2), carrier, reply),
               rec)

GetRate ==
    \E from_zip \in {None, Str("78701")}, reply \in PlainReplies :
        Called("get_rate",
               [carrier |-> Str("ups"), to_zip |-> Str("10001"), weight |-> Num(2),
                from_zip |-> from_zip, service |-> Str("ground")],
               reply,
               get_rate(Str("ups"), Str("10001"), Num(2), from_zip, Str("ground"), reply),
               rec)

GetToken ==
    \E reply \in PlainReplies :
        Called("get_token", <<>>, reply, get_token(reply), rec)

VoidShipment ==
    \E id \in Ids, reply \in Replies :
        Called("void_shipment", [id |-> id], reply, void_shipment(id, reply), rec)

ListShipments ==
    \E cursor \in Cursors, limit \in Limits, reply \in PlainReplies :
        Called("list_shipments", [cursor |-> cursor, limit |-> limit], reply,
               list_shipments(cursor, limit, reply), rec)

CreateBox ==
    \E weight \in {None, Num(0)}, weight_units \in {None, Str("LB")}, name \in {Str("")}, reply \in PlainReplies :
        Called("create_box",
               [weight |-> weight, weight_units |-> weight_units, name |-> name],
               reply,
               create_box(Num(10), Num(8), Num(6), weight, weight_units, None, name, reply),
               rec)

ListBoxes ==
    \E cursor \in Cursors, limit \in Limits, reply \in PlainReplies :
        Called("list_boxes", [cursor |-> cursor, limit |-> limit], reply,
               list_boxes(cursor, limit, reply), rec)

Next ==
    \/ Construct
    \/ NewAddress
    \/ Put
    \/ Get
    \/ Validate
    \/ Create
    \/ Retrieve
    \/ Track
    \/ Void
    \/ TrackByReference
    \/ GetTransitTime
    \/ GetRate
    \/ GetToken
    \/ VoidShipment
    \/ ListShipments
    \/ CreateBox
    \/ ListBoxes

Spec == Init /\ [][Next]_vars

(***************************************************************************)
(* Properties.  In what follows an argument counts as given when Python    *)
(* takes it for true (it is neither None nor empty), except for the cursor *)
(* and the limit of the listings, which are given when they are not None.  *)
(***************************************************************************)
TheRequest == last.reqs[1]

\* C1: constructing an object of a class with a non-empty whitelist fails with
\* an invalid-argument error (and yields no object) when some key of the
\* mapping is not whitelisted, and otherwise succeeds with fields equal to the
\* mapping; with an empty whitelist every mapping is accepted.
C1_Whitelist ==
    last.verb = "PostmasterObject" =>
        LET ARGS == last.args.ARGS
            kwargs == last.args.kwargs
        IN  IF ARGS # {} /\ \E k \in DOMAIN kwargs : k \notin ARGS
            THEN last.outcome = Raise(TypeError)
            ELSE /\ last.outcome.kind = "return"
                 /\ last.outcome.val.data = Dict(kwargs)
                 /\ rec = last.outcome.val

\* The arguments of Shipment.create that were given: the required ones, and
\* the optional ones with a non-empty value.
CreateGiven == {k \in DOMAIN last.args : k \in {"to", "packages", "service"} \/ Truthy(last.args[k])}

\* C2 as stated: whatever mapping the transport returns for the POST,
\* Shipment.create returns a record whose id is the response's id and whose
\* fields hold every given argument with its value and every field of the
\* response.
C2_Original ==
    (last.verb = "create" /\ last.reply.kind = "return" /\ last.reply.val.t = "dict") =>
        LET resp == last.reply.val.v
        IN  /\ last.outcome.kind = "return"
            /\ "id" \in DOMAIN resp
            /\ last.outcome.val.attrs["id"] = resp["id"]
            /\ \A k \in CreateGiven :
                k \in DOMAIN last.outcome.val.data.v /\ last.outcome.val.data.v[k] = last.args[k]
            /\ \A k \in DOMAIN resp :
                k \in DOMAIN last.outcome.val.data.v /\ last.outcome.val.data.v[k] = resp[k]

\* C2, amended: Shipment.create issues one POST to /v1/shipments with the given
\* arguments as the body.  For a response mapping that holds an id it returns a
\* record whose id is the response's id and whose fields are the response's
\* fields plus every given argument the response has no field for; a field in
\* both has the response's value.  For a response mapping without an id it
\* fails with a key error.
C2_CreateRoundTrip ==
    (last.verb = "create" /\ last.reply.kind = "return" /\ last.reply.val.t = "dict") =>
        LET resp == last.reply.val.v
        IN  /\ Len(last.reqs) = 1
            /\ TheRequest.method = "POST"
            /\ TheRequest.path = Str("/v1/shipments")
            /\ TheRequest.body = Dict([k \in CreateGiven |-> last.args[k]])
            /\ IF "id" \in DOMAIN resp
               THEN /\ last.outcome.kind = "return"
                    /\ rec = last.outcome.val
                    /\ rec.cls = "Shipment"
                    /\ rec.attrs["id"] = resp["id"]
                    /\ DOMAIN rec.data.v = CreateGiven \cup DOMAIN resp
                    /\ \A k \in DOMAIN resp : rec.data.v[k] = resp[k]
                    /\ \A k \in CreateGiven \ DOMAIN resp : rec.data.v[k] = last.args[k]
               ELSE last.outcome = Raise(KeyError)

C2_Witness ==
    /\ last.verb = "create"
    /\ last.reply = Return(Dict([id |-> Num(7), service |-> Str("express")]))
    /\ last.args.service = Str("ground")
    /\ last.args.carrier = Str("ups")
    /\ last.outcome.kind = "return"
    /\ rec.attrs["id"] = Num(7)
    /\ rec.data.v["service"] = Str("express")
    /\ rec.data.v["carrier"] = Str("ups")

\* The response that confirms a void: an object whose message is "OK".
Confirms(resp) == resp.t = "dict" /\ "message" \in DOMAIN resp.v /\ resp.v["message"] = Str("OK")

\* C3: void_shipment(id) issues one DELETE to /v1/shipments/{id}/void; when the
\* transport returns, the call returns True if the response is an object whose
\* message is exactly "OK", and None (no error) for any other response.
C3_VoidById ==
    last.verb = "void_shipment" =>
        /\ Len(last.reqs) = 1
        /\ TheRequest.method = "DELETE"
        /\ TheRequest.path = Str("/v1/shipments/" \o PyStr(last.args.id) \o "/void")
        /\ last.reply.kind = "return" =>
            /\ last.outcome.kind = "return"
            /\ Confirms(last.reply.val) => last.outcome.val = True
            /\ ~Confirms(last.reply.val) => last.outcome.val = None /\ ~Truthy(last.outcome.val)

C3_Witness ==
    /\ last.verb = "void_shipment"
    /\ last.args.id = Str("S1")
    /\ TheRequest.path = Str("/v1/shipments/S1/void")
    /\ last.reply = Return(Dict([message |-> Str("OK")]))
    /\ last.outcome = Return(True)

\* C4: list_shipments and list_boxes issue one GET to /v1/shipments and to
\* /v1/packages, whose query holds the cursor under "cursor" if and only if a
\* cursor was given, the limit under "limit" if and only if a limit was given,
\* and nothing else; the call ends as the transport does, response unchanged.
C4_ListPassThrough ==
    last.verb \in {"list_shipments", "list_boxes"} =>
        /\ Len(last.reqs) = 1
        /\ TheRequest.method = "GET"
        /\ TheRequest.path = Str(IF last.verb = "list_shipments" THEN "/v1/shipments" ELSE "/v1/packages")
        /\ TheRequest.params.t = "dict"
        /\ DOMAIN TheRequest.params.v = {k \in {"cursor", "limit"} : last.args[k] # None}
        /\ \A k \in DOMAIN TheRequest.params.v : TheRequest.params.v[k] = last.args[k]
        /\ last.outcome = last.reply

C4_Witness ==
    /\ last.verb = "list_shipments"
    /\ last.args.cursor = Str("")
    /\ last.args.limit = Num(0)
    /\ TheRequest.params = Dict([cursor |-> Str(""), limit |-> Num(0)])
    /\ last.outcome = Return(Page)

\* C5: when the transport raises an error on the GET of Shipment.retrieve(id),
\* the call fails with that same error, returns no record and has issued that
\* one request only (to /v1/shipments/{id} for an id that is given).
C5_RetrieveFailure ==
    (last.verb = "retrieve" /\ last.reply.kind = "raise") =>
        /\ last.outcome = last.reply
        /\ Len(last.reqs) = 1
        /\ TheRequest.method = "GET"
        /\ Truthy(last.args.package_id) =>
            TheRequest.path = Str("/v1/shipments/" \o PyStr(last.args.package_id))

C5_Witness ==
    /\ last.verb = "retrieve"
    /\ last.args.package_id = Str("S1")
    /\ TheRequest.path = Str("/v1/shipments/S1")
    /\ last.reply = Raise(HTTPError(404))
    /\ last.outcome = Raise(HTTPError(404))
    /\ nreq = ncalls

\* C6: for line2 and for line3, the fields of a new Address have no such key
\* when the line is not given, have the key with the line's value when it is
\* given, and never have the key with an empty value.
C6_AddressLines ==
    last.verb = "Address" =>
        /\ last.outcome.kind = "return"
        /\ rec = last.outcome.val
        /\ \A k \in {"line2", "line3"} :
            /\ ~Truthy(last.args[k]) => k \notin DOMAIN rec.data.v
            /\ Truthy(last.args[k]) => k \in DOMAIN rec.data.v /\ rec.data.v[k] = last.args[k]
            /\ k \in DOMAIN rec.data.v => rec.data.v[k] \notin {None, Str("")}

C6_Witness ==
    /\ last.verb = "Address"
    /\ last.args.line2 = Str("Suite 4")
    /\ last.args.line3 = Str("")
    /\ rec.data.v["line2"] = Str("Suite 4")
    /\ "line3" \notin DOMAIN rec.data.v

\* The path and the body of the request of a quote or a validation.
QuotePath == CASE last.verb = "validate" -> "/v1/validate" [] last.verb = "get_rate" -> "/v1/rates" [] OTHER -> "/v1/times"
QuoteBody == IF last.verb = "validate" THEN rec.data ELSE Dict(last.args)

\* C7 as stated: Address.validate, get_rate and get_transit_time each issue a
\* PUT, to /v1/validate, /v1/rates and /v1/times, with the record's fields as
\* the body, and return the transport's response as it is.
C7_Original ==
    last.verb \in {"validate", "get_rate", "get_transit_time"} =>
        /\ Len(last.reqs) = 1
        /\ TheRequest.method = "PUT"
        /\ TheRequest.path = Str(QuotePath)
        /\ TheRequest.body = QuoteBody
        /\ last.outcome = last.reply

\* C7, amended: Address.validate, get_rate and get_transit_time each issue a
\* POST, to /v1/validate, /v1/rates and /v1/times, with the record's fields as
\* the body, and return the transport's response as it is.
C7_QuoteVerb ==
    last.verb \in {"validate", "get_rate", "get_transit_time"} =>
        /\ Len(last.reqs) = 1
        /\ TheRequest.method = "POST"
        /\ TheRequest.path = Str(QuotePath)
        /\ TheRequest.body = QuoteBody
        /\ last.outcome = last.reply

C7_Witness ==
    /\ last.verb = "get_rate"
    /\ TheRequest.method = "POST"
    /\ TheRequest.path = Str("/v1/rates")
    /\ TheRequest.body.v["service"] = Str("ground")
    /\ TheRequest.body.v["from_zip"] = None
    /\ last.outcome = Return(Page)

\* C8: put(id, action) on a record POSTs the record's fields to its path when
\* no id is given, and PUTs them to path/id, or to path/id/action when an
\* action is given, when an id is given; it ends as the transport does, and
\* the record's fields are after the call what they were before it.
C8_Upsert ==
    [][last'.verb = "put" =>
        LET q == last'.reqs[1]
            id_ == last'.args.id_
            action == last'.args.action
            path == PyStr(PATH(rec.cls))
            url == IF Truthy(action) THEN path \o "/" \o PyStr(id_) \o "/" \o PyStr(action)
                   ELSE path \o "/" \o PyStr(id_)
        IN  /\ rec' = rec
            /\ Len(last'.reqs) = 1
            /\ q.body = rec.data
            /\ q.method = (IF Truthy(id_) THEN "PUT" ELSE "POST")
            /\ q.path = (IF Truthy(id_) THEN Str(url) ELSE PATH(rec.cls))
            /\ last'.outcome = last'.reply]_vars

C8_Witness ==
    /\ last.verb = "put"
    /\ rec.cls = "Address"
    /\ last.args = [id_ |-> Num(7), action |-> Str("void")]
    /\ TheRequest.method = "PUT"
    /\ TheRequest.path = Str("/v1/validate/7/void")
    /\ TheRequest.body = rec.data
    /\ last.outcome = Return(Page)

\* Whether the record holds an id: the attribute Shipment.create sets, or an
\* id field of its data.
HoldsId(self) == "id" \in DOMAIN self.attrs \/ (self.data.t = "dict" /\ "id" \in DOMAIN self.data.v)
HeldId(self) == IF "id" \in DOMAIN self.attrs THEN self.attrs["id"] ELSE self.data.v["id"]

\* C9 as stated: every call of a verb issues exactly one request, so that the
\* number of requests issued is the number of verb calls made.
C9_Original == nreq = ncalls

\* C9, amended: no call of a verb issues more than one request, and each
\* issues exactly one but for track() and void() on a record that holds no id,
\* which fail before any request is issued (with an attribute error when the
\* record's data is a mapping).
C9_OneRequest ==
    /\ nreq <= ncalls
    /\ last.verb \in Verbs =>
        /\ Len(last.reqs) <= 1
        /\ Len(last.reqs) = 0 <=>
            /\ last.verb \in {"track", "void"}
            /\ ~HoldsId(rec)
        /\ Len(last.reqs) = 0 =>
            /\ last.outcome.kind = "raise"
            /\ rec.data.t = "dict" => last.outcome = Raise(AttributeError)

C9_Witness ==
    /\ last.verb = "track"
    /\ ~HoldsId(rec)
    /\ last.reqs = <<>>
    /\ ncalls = 2
    /\ nreq = 1

\* C10 as stated: on a record returned by Shipment.create or Shipment.retrieve,
\* track() issues a GET to /v1/shipments/{id}/track and returns a tracking
\* record whose fields are the response, and void() issues a PUT to
\* /v1/shipments/{id}/void and discards the response, {id} being the id the
\* record holds; neither changes the record.
C10_Original ==
    [][last'.verb \in {"track", "void"} =>
        /\ rec' = rec
        /\ HoldsId(rec)
        /\ Len(last'.reqs) = 1
        /\ Truthy(HeldId(rec)) =>
            /\ last'.reqs[1].method = (IF last'.verb = "track" THEN "GET" ELSE "PUT")
            /\ last'.reqs[1].path = Str("/v1/shipments/" \o PyStr(HeldId(rec)) \o "/" \o last'.verb)
        /\ (last'.verb = "track" /\ last'.reply.kind = "return" /\ last'.reply.val.t = "dict") =>
            last'.outcome = Return(Obj("Tracking", last'.reply.val, <<>>))
        /\ (last'.verb = "void" /\ last'.reply.kind = "return") =>
            last'.outcome = Return(None)]_vars

====
